---- MODULE Spec2Model ----
(***************************************************************************)
(* Model of lpr_predict (python_backend/models/lprnet/lpr_client.py), the  *)
(* client routine that batches preprocessed frames, sends them to the      *)
(* Triton inference server, gathers the responses and builds the list of   *)
(* per-image result dictionaries.                                          *)
(*                                                                         *)
(* The inference server, the model's metadata/config and the               *)
(* LprnetPostprocessor are outside the routine: their answers are inputs   *)
(* chosen nondeterministically.  Strings that the code lower-cases are     *)
(* sequences of one-character strings.  Python's 0-based image_idx is kept *)
(* 0-based; frames[image_idx] is frames[image_idx + 1] here.               *)
(***************************************************************************)
EXTENDS Integers, Sequences, FiniteSets, TLC

\* ---- bounds of the model --------------------------------------------------
MaxFrames == 3
MaxBatchSize == 3
MaxModelBatch == 1

\* ---- inputs ---------------------------------------------------------------
\* values of FLAGS['protocol'] a caller passes
Protocols ==
    { <<"g", "r", "p", "c">>, <<"g", "R", "P", "C">>,
      <<"h", "t", "t", "p">>, <<"H", "T", "T", "P">> }

\* license plates LprnetPostprocessor.apply can decode (empty: nothing found)
Plates == { <<>>, <<"S">> }

\* str.lower() on one character
LowerChar(c) ==
    CASE c = "G" -> "g"
      [] c = "R" -> "r"
      [] c = "P" -> "p"
      [] c = "C" -> "c"
      [] c = "H" -> "h"
      [] c = "T" -> "t"
      [] OTHER -> c

\* str.lower()
lower(s) == [i \in DOMAIN s |-> LowerChar(s[i])]

grpc == <<"g", "r", "p", "c">>

\* triton_model.preprocess(frame.as_numpy(frame.load_image()))
preprocess(frame) == [image |-> frame, preprocessed |-> TRUE]

VARIABLES
    FLAGS,                \* keyword arguments of lpr_predict
    frames,               \* list of Frame objects (image paths 1..N)
    pc,                   \* position inside lpr_predict
    triton_client,        \* "none", "grpc" or "http"
    stream,               \* "off", "started" or "stopped"
    max_batch_size,       \* triton_model.max_batch_size
    image_idx,
    last_request,
    repeated_image_data,
    server_requests,      \* inference requests handed to the client library
    sent_count,
    in_flight,            \* gRPC async/stream requests not yet completed
    completed_requests,   \* user_data._completed_requests
    async_requests,       \* handles of HTTP async requests
    responses,
    processed_count,
    processed_request,
    final_response,
    failed_call,          \* the call that failed, "none" if none did
    raised                \* what lpr_predict raised to its caller

vars == << FLAGS, frames, pc, triton_client, stream, max_batch_size, image_idx,
           last_request, repeated_image_data, server_requests, sent_count,
           in_flight, completed_requests, async_requests, responses,
           processed_count, processed_request, final_response, failed_call,
           raised >>

Init ==
    /\ FLAGS \in [protocol : Protocols, streaming : BOOLEAN,
                  async_set : BOOLEAN, batch_size : 1..MaxBatchSize]
    /\ \E n \in 1..MaxFrames : frames = [i \in 1..n |-> i]
    /\ pc = "check_flags"
    /\ triton_client = "none"
    /\ stream = "off"
    /\ max_batch_size = 0
    /\ image_idx = 0
    /\ last_request = FALSE
    /\ repeated_image_data = <<>>
    /\ server_requests = <<>>
    /\ sent_count = 0
    /\ in_flight = {}
    /\ completed_requests = <<>>
    /\ async_requests = <<>>
    /\ responses = <<>>
    /\ processed_count = 0
    /\ processed_request = 0
    /\ final_response = <<>>
    /\ failed_call = "none"
    /\ raised = "none"

\* sys.exit(1)
SysExit(call) ==
    /\ pc' = "raised"
    /\ raised' = "SystemExit"
    /\ failed_call' = call

\* lines 124-125
CheckFlagsNoStreamingCheck ==
    /\ pc = "check_flags"
    /\ pc' = "create_client"
    /\ UNCHANGED << FLAGS, frames, triton_client, stream, max_batch_size,
                    image_idx, last_request, repeated_image_data,
                    server_requests, sent_count, in_flight,
                    completed_requests, async_requests, responses,
                    processed_count, processed_request, final_response,
                    failed_call, raised >>

CheckFlags ==
    /\ pc = "check_flags"
    /\ IF FLAGS.streaming /\ lower(FLAGS.protocol) # grpc
       THEN /\ pc' = "raised"
            /\ raised' = "Exception"
       ELSE /\ pc' = "create_client"
            /\ UNCHANGED raised
    /\ UNCHANGED << FLAGS, frames, triton_client, stream, max_batch_size,
                    image_idx, last_request, repeated_image_data,
                    server_requests, sent_count, in_flight,
                    completed_requests, async_requests, responses,
                    processed_count, processed_request, final_response,
                    failed_call >>

\* lines 127-140
CreateClient ==
    /\ pc = "create_client"
    /\ \E ok \in BOOLEAN :
         IF ok
         THEN /\ triton_client' =
                    IF lower(FLAGS.protocol) = grpc THEN "grpc" ELSE "http"
              /\ pc' = "get_model_metadata"
              /\ UNCHANGED << raised, failed_call >>
         ELSE /\ SysExit("client_creation")
              /\ UNCHANGED triton_client
    /\ UNCHANGED << FLAGS, frames, stream, max_batch_size, image_idx,
                    last_request, repeated_image_data, server_requests,
                    sent_count, in_flight, completed_requests,
                    async_requests, responses, processed_count,
                    processed_request, final_response >>

\* lines 144-149
GetModelMetadata ==
    /\ pc = "get_model_metadata"
    /\ \E ok \in BOOLEAN :
         IF ok
         THEN /\ pc' = "get_model_config"
              /\ UNCHANGED << raised, failed_call >>
         ELSE SysExit("get_model_metadata")
    /\ UNCHANGED << FLAGS, frames, triton_client, stream, max_batch_size,
                    image_idx, last_request, repeated_image_data,
                    server_requests, sent_count, in_flight,
                    completed_requests, async_requests, responses,
                    processed_count, processed_request, final_response >>

\* lines 151-167: the config is fetched and the model parsed from it
GetModelConfig ==
    /\ pc = "get_model_config"
    /\ \E ok \in BOOLEAN :
         IF ok
         THEN /\ \E m \in 0..MaxModelBatch : max_batch_size' = m
              /\ pc' = "start_stream"
              /\ UNCHANGED << raised, failed_call >>
         ELSE /\ SysExit("get_model_config")
              /\ UNCHANGED max_batch_size
    /\ UNCHANGED << FLAGS, frames, triton_client, stream, image_idx,
                    last_request, repeated_image_data, server_requests,
                    sent_count, in_flight, completed_requests,
                    async_requests, responses, processed_count,
                    processed_request, final_response >>

\* lines 213-214
StartStream ==
    /\ pc = "start_stream"
    /\ stream' = IF FLAGS.streaming THEN "started" ELSE stream
    /\ pc' = "fill_batch"
    /\ UNCHANGED << FLAGS, frames, triton_client, max_batch_size, image_idx,
                    last_request, repeated_image_data, server_requests,
                    sent_count, in_flight, completed_requests,
                    async_requests, responses, processed_count,
                    processed_request, final_response, failed_call, raised >>

\* lines 222-232: one iteration of the for loop that fills a batch
FillBatch ==
    /\ pc = "fill_batch"
    /\ Len(repeated_image_data) < FLAGS.batch_size
    /\ repeated_image_data' =
           Append(repeated_image_data, preprocess(frames[image_idx + 1]))
    /\ image_idx' = (image_idx + 1) % Len(frames)
    /\ last_request' = IF image_idx' = 0 THEN TRUE ELSE last_request
    /\ pc' = IF Len(repeated_image_data') = FLAGS.batch_size
             THEN "send" ELSE "fill_batch"
    /\ UNCHANGED << FLAGS, frames, triton_client, stream, max_batch_size,
                    server_requests, sent_count, in_flight,
                    completed_requests, async_requests, responses,
                    processed_count, processed_request, final_response,
                    failed_call, raised >>

\* lines 234-237: np.stack of the batch, or its first image only when the
\* model does not support batching
batched_image_data ==
    IF max_batch_size > 0
    THEN repeated_image_data
    ELSE << repeated_image_data[1] >>

\* lines 218, 239-288: the batch is sent and the while condition re-tested
AfterSend ==
    /\ pc' = IF last_request THEN "stop_stream" ELSE "fill_batch"
    /\ repeated_image_data' = <<>>

\* lines 240-288
SendRequest ==
    /\ pc = "send"
    /\ sent_count' = sent_count + 1
    /\ \E ok \in BOOLEAN :
         IF ok
         THEN /\ server_requests' = Append(server_requests, batched_image_data)
              /\ AfterSend
              /\ IF FLAGS.streaming \/ (FLAGS.async_set /\ lower(FLAGS.protocol) = grpc)
                 THEN /\ in_flight' = in_flight \cup {sent_count'}
                      /\ UNCHANGED << async_requests, responses >>
                 ELSE IF FLAGS.async_set
                 THEN /\ async_requests' = Append(async_requests, sent_count')
                      /\ UNCHANGED << in_flight, responses >>
                 ELSE /\ responses' = Append(responses, sent_count')
                      /\ UNCHANGED << in_flight, async_requests >>
              /\ UNCHANGED << stream, failed_call, raised >>
         ELSE \* except InferenceServerException (lines 282-286)
              /\ stream' = IF FLAGS.streaming THEN "stopped" ELSE stream
              /\ SysExit("infer")
              /\ UNCHANGED << server_requests, repeated_image_data, in_flight,
                              async_requests, responses >>
    /\ UNCHANGED << FLAGS, frames, triton_client, max_batch_size, image_idx,
                    last_request, completed_requests, processed_count,
                    processed_request, final_response >>

\* lines 55-57: the client library completes an async or stream request
completion_callback ==
    /\ \E id \in in_flight, error \in BOOLEAN :
         /\ in_flight' = in_flight \ {id}
         /\ completed_requests' =
                Append(completed_requests, [result |-> id, error |-> error])
    /\ UNCHANGED << FLAGS, frames, pc, triton_client, stream, max_batch_size,
                    image_idx, last_request, repeated_image_data,
                    server_requests, sent_count, async_requests, responses,
                    processed_count, processed_request, final_response,
                    failed_call, raised >>

\* lines 290-291
StopStream ==
    /\ pc = "stop_stream"
    /\ stream' = IF FLAGS.streaming THEN "stopped" ELSE stream
    /\ pc' = "collect"
    /\ UNCHANGED << FLAGS, frames, triton_client, max_batch_size, image_idx,
                    last_request, repeated_image_data, server_requests,
                    sent_count, in_flight, completed_requests,
                    async_requests, responses, processed_count,
                    processed_request, final_response, failed_call, raised >>

\* lines 293-302: gRPC, one iteration of the while loop over the queue;
\* _completed_requests.get() blocks while the queue is empty
CollectGrpc ==
    /\ pc = "collect"
    /\ lower(FLAGS.protocol) = grpc
    /\ IF (FLAGS.streaming \/ FLAGS.async_set) /\ processed_count < sent_count
       THEN /\ completed_requests # <<>>
            /\ completed_requests' = Tail(completed_requests)
            /\ processed_count' = processed_count + 1
            /\ IF Head(completed_requests).error
               THEN /\ SysExit("completion")
                    /\ UNCHANGED responses
               ELSE /\ responses' =
                          Append(responses, Head(completed_requests).result)
                    /\ UNCHANGED << pc, failed_call, raised >>
       ELSE /\ pc' = "postprocess"
            /\ UNCHANGED << completed_requests, processed_count, responses,
                            failed_call, raised >>
    /\ UNCHANGED << FLAGS, frames, triton_client, stream, max_batch_size,
                    image_idx, last_request, repeated_image_data,
                    server_requests, sent_count, in_flight, async_requests,
                    processed_request, final_response >>

\* lines 303-308: HTTP, one iteration of the for loop over async_requests;
\* get_result() raises InferenceServerException, which nothing catches
CollectHttp ==
    /\ pc = "collect"
    /\ lower(FLAGS.protocol) # grpc
    /\ IF FLAGS.async_set /\ Len(responses) < Len(async_requests)
       THEN \E ok \in BOOLEAN :
              IF ok
              THEN /\ responses' =
                         Append(responses, async_requests[Len(responses) + 1])
                   /\ UNCHANGED << pc, failed_call, raised >>
              ELSE /\ pc' = "raised"
                   /\ raised' = "InferenceServerException"
                   /\ failed_call' = "get_result"
                   /\ UNCHANGED responses
       ELSE /\ pc' = "postprocess"
            /\ UNCHANGED << responses, failed_call, raised >>
    /\ UNCHANGED << FLAGS, frames, triton_client, stream, max_batch_size,
                    image_idx, last_request, repeated_image_data,
                    server_requests, sent_count, in_flight,
                    completed_requests, async_requests, processed_count,
                    processed_request, final_response >>

\* lines 336-338: the batches LprnetPostprocessor.apply may return for one
\* response; each entry is (license_plate, confidence scores, filename).
\* The scores and the filename are copied into the result unread, so one
\* value stands for each.
BatchResults(batch_size) ==
    UNION { [1..n -> [license_plate : Plates,
                      confidence_scores : {"conf"},
                      filename : {"file"}]] : n \in 0..batch_size }

\* lines 346-351
FinalImageResponseAlways200(result) ==
    [HTTPStatus |-> 200, file_name |-> result.filename,
     license_plate |-> result.license_plate,
     confidence_scores |-> result.confidence_scores]

FinalImageResponse(result) ==
    IF Len(result.license_plate) # 0
    THEN [HTTPStatus |-> 200, file_name |-> result.filename,
          license_plate |-> result.license_plate,
          confidence_scores |-> result.confidence_scores]
    ELSE [HTTPStatus |-> 204, file_name |-> result.filename,
          license_plate |-> result.license_plate,
          confidence_scores |-> result.confidence_scores]

\* lines 330-351: one iteration of the while loop over the responses
PostProcess ==
    /\ pc = "postprocess"
    /\ processed_request < sent_count
    /\ \E batch_results \in BatchResults(FLAGS.batch_size) :
         final_response' = final_response \o
             [i \in 1..Len(batch_results) |-> FinalImageResponse(batch_results[i])]
    /\ processed_request' = processed_request + 1
    /\ UNCHANGED << FLAGS, frames, pc, triton_client, stream, max_batch_size,
                    image_idx, last_request, repeated_image_data,
                    server_requests, sent_count, in_flight,
                    completed_requests, async_requests, responses,
                    processed_count, failed_call, raised >>

\* lines 330, 353-354
Return ==
    /\ pc = "postprocess"
    /\ processed_request >= sent_count
    /\ pc' = "returned"
    /\ UNCHANGED << FLAGS, frames, triton_client, stream, max_batch_size,
                    image_idx, last_request, repeated_image_data,
                    server_requests, sent_count, in_flight,
                    completed_requests, async_requests, responses,
                    processed_count, processed_request, final_response,
                    failed_call, raised >>

Next ==
    \/ CheckFlags
    \/ CreateClient
    \/ GetModelMetadata
    \/ GetModelConfig
    \/ StartStream
    \/ FillBatch
    \/ SendRequest
    \/ completion_callback
    \/ StopStream
    \/ CollectGrpc
    \/ CollectHttp
    \/ PostProcess
    \/ Return

Spec == Init /\ [][Next]_vars

----------------------------------------------------------------------------
\* C1: for any number of frames N >= 1 and any batch_size B >= 1, every
\* inference request carries exactly B preprocessed images taken in frame
\* order, wrapping around to the first frame when the frames run out, and
\* once the sending loop is over every frame is contained in some request.
C1_EveryRequestCarriesBatchSizeImages ==
    LET B == FLAGS.batch_size
        N == Len(frames)
    IN  /\ \A k \in DOMAIN server_requests :
             /\ Len(server_requests[k]) = B
             /\ \A i \in 1..B :
                  server_requests[k][i] =
                      preprocess(frames[(((k - 1) * B + (i - 1)) % N) + 1])
        /\ pc \in {"stop_stream", "collect", "postprocess", "returned"} =>
             \A f \in 1..N :
               \E k \in DOMAIN server_requests :
                 \E i \in DOMAIN server_requests[k] :
                   server_requests[k][i] = preprocess(frames[f])

\* C2: lpr_predict raises Exception to its caller when client creation
\* fails, and InferenceServerException when retrieving the model metadata or
\* config fails or an inference request is unsuccessful, whether the failure
\* is reported synchronously or through an async/streaming completion.
C2_RaisesDocumentedExceptions ==
    /\ failed_call = "client_creation" => raised = "Exception"
    /\ failed_call \in {"get_model_metadata", "get_model_config", "infer",
                        "completion", "get_result"} =>
           raised = "InferenceServerException"

\* a protocol string that is not "grpc" in any capitalisation
NotGrpcIgnoringCase(p) ==
    ~ ( /\ Len(p) = 4
        /\ p[1] \in {"g", "G"}
        /\ p[2] \in {"r", "R"}
        /\ p[3] \in {"p", "P"}
        /\ p[4] \in {"c", "C"} )

\* C3: with streaming set and a protocol that is not "grpc" in any
\* capitalisation, lpr_predict raises Exception before any client is created,
\* any stream is started or any request is sent; with a protocol that is
\* "grpc" in some capitalisation it does not raise Exception.
C3_StreamingOnlyWithGrpc ==
    /\ (FLAGS.streaming /\ NotGrpcIgnoringCase(FLAGS.protocol)
            /\ pc # "check_flags") =>
          /\ pc = "raised"
          /\ raised = "Exception"
          /\ triton_client = "none"
          /\ stream = "off"
          /\ sent_count = 0
          /\ server_requests = <<>>
          /\ in_flight = {}
    /\ raised = "Exception" =>
          FLAGS.streaming /\ NotGrpcIgnoringCase(FLAGS.protocol)

\* C3 witness: a streaming call over upper-case HTTP has been rejected
C3_Witness ==
    /\ FLAGS.streaming
    /\ FLAGS.protocol = <<"H", "T", "T", "P">>
    /\ pc = "raised"
    /\ raised = "Exception"

\* C5: every element of the result list has HTTPStatus 200 exactly when its
\* license_plate is non-empty and 204 exactly when it is empty, and no other
\* status appears.
C5_StatusMatchesLicensePlate ==
    \A i \in DOMAIN final_response :
        /\ final_response[i].HTTPStatus \in {200, 204}
        /\ final_response[i].HTTPStatus = 200 <=>
               final_response[i].license_plate # <<>>
        /\ final_response[i].HTTPStatus = 204 <=>
               final_response[i].license_plate = <<>>

\* C5 witness: a returned list holding both a recognised and an empty plate
C5_Witness ==
    /\ pc = "returned"
    /\ \E i, j \in DOMAIN final_response :
         /\ final_response[i].license_plate # <<>>
         /\ final_response[i].HTTPStatus = 200
         /\ final_response[j].license_plate = <<>>
         /\ final_response[j].HTTPStatus = 204

====
